---- MODULE Spec2Model ----
(***************************************************************************)
(* A model of rfml_hdf5.py: the RFML convention over an HDF5 container.    *)
(*                                                                         *)
(* The state is the logical content of one container file (the node named  *)
(* 'data' under the root, its attributes, the datasets it holds) and the   *)
(* outcome of the last library call.  Every public function is one action: *)
(* the action applies the function's "call" operator, which computes the   *)
(* file the call leaves behind, how the call ended, what it returned and   *)
(* the container events (opens, closes, reclamation) in program order.     *)
(*                                                                         *)
(* Numbers.  An integer element is a TLA+ integer.  A floating point       *)
(* element is counted in halves: the float 1.5 is 3, the float 1.0 is 2.   *)
(* An array of a dataset is uniform: one element value stands for all its  *)
(* elements, so that an element-wise conversion is a conversion of `val`.  *)
(* Names are sequences of one-character strings.                           *)
(***************************************************************************)
EXTENDS Integers, Sequences, FiniteSets, TLC

\* ------------------------------------------------------------ bounds
NumShortNames == 1
MaxFields == 3
MaxWriteFields == 2
MaxCoords == 5

\* ------------------------------------------------- program constants
NameWidth == 8
\* an attribute is stored in one object header message, of at most 64 KiB
MaxMessageBytes == 65536

VARIABLES file, last
vars == <<file, last>>

\* ------------------------------------------------------------ inputs
Letters == <<"C", "T", "U", "V", "W">>
ShortNames == {<<Letters[i]>> : i \in 1..NumShortNames}
LongName == <<"t", "e", "m", "p", "e", "r", "a", "t", "u">>
FieldNames == ShortNames \cup {LongName}

\* The arrays callers pass: numpy integers (2), numpy floats (1.5), text.
DataPool ==
  { [kind |-> "int", shape |-> <<2, 2, 2>>, val |-> 2],
    [kind |-> "float", shape |-> <<3, 3, 3>>, val |-> 3],
    [kind |-> "str", shape |-> <<2, 2, 2>>, val |-> <<"x">>] }
\* hdf5_overwrite_dataset is also given the floats 2.5
OverwritePool == DataPool \cup { [kind |-> "float", shape |-> <<3, 3, 3>>, val |-> 5] }

\* the fields of a snapshot are numeric arrays
FieldPool == { d \in DataPool : d.kind # "str" }

DatasetTypes == {"i32", "f64"}

\* ------------------------------------------------------------ helpers
EmptyMap == [x \in {} |-> {}]
Put(m, k, v) == [x \in (DOMAIN m) \cup {k} |-> IF x = k THEN v ELSE m[x]]
Del(m, k) == [x \in (DOMAIN m) \ {k} |-> m[x]]

\* list.index: the position of the first occurrence, 0 when there is none
IndexOf(s, x) ==
  IF \E i \in 1..Len(s) : s[i] = x
  THEN CHOOSE i \in 1..Len(s) : s[i] = x /\ \A j \in 1..(i - 1) : s[j] # x
  ELSE 0
\* np.delete(s, i)
DeleteAt(s, i) == [j \in 1..(Len(s) - 1) |-> IF j < i THEN s[j] ELSE s[j + 1]]

\* ------------------------------------------------ element conversion
\* numpy's astype to a fixed-width byte string keeps the first NameWidth bytes
Trunc(s) == IF Len(s) > NameWidth THEN SubSeq(s, 1, NameWidth) ELSE s
\* a space-padded string read back into a null-padded one loses its padding
RECURSIVE Strip(_)
Strip(s) == IF Len(s) > 0 /\ s[Len(s)] = " " THEN Strip(SubSeq(s, 1, Len(s) - 1)) ELSE s
\* float -> integer conversion truncates toward zero (v is in halves)
TruncHalf(v) == IF v >= 0 THEN v \div 2 ELSE -((-v) \div 2)

\* numpy's text for a number, as astype to a byte string writes it
DigitChars == <<"0", "1", "2", "3", "4", "5", "6", "7", "8", "9">>
RECURSIVE Digits(_)
Digits(n) ==
  IF n < 0 THEN <<"-">> \o Digits(-n)
  ELSE IF n < 10 THEN <<DigitChars[n + 1]>>
  ELSE Digits(n \div 10) \o <<DigitChars[(n % 10) + 1]>>
RECURSIVE FloatText(_)
FloatText(v) ==
  IF v < 0 THEN <<"-">> \o FloatText(-v)
  ELSE Digits(v \div 2) \o <<".", IF v % 2 = 1 THEN "5" ELSE "0">>
TextOf(kind, v) ==
  CASE kind = "str" -> v [] kind = "int" -> Digits(v) [] OTHER -> FloatText(v)

KindOf(type) == CASE type = "S8" -> "str" [] type = "i32" -> "int" [] OTHER -> "float"
\* np.array(data).astype(write_type) raises for text into a numeric type
CanCast(kind, type) == kind # "str" \/ type = "S8"
Cast(kind, type, v) ==
  CASE type = "S8" -> Strip(Trunc(TextOf(kind, v)))
    [] type = "i32" -> (IF kind = "float" THEN TruncHalf(v) ELSE v)
    [] OTHER -> (IF kind = "int" THEN 2 * v ELSE v)
\* what an object that was created but never written reads as
Zero(type) == IF type = "S8" THEN <<>> ELSE 0
\* the number 1 in the representation of a stored type
One(type) == IF type = "f64" THEN 2 ELSE 1

\* the bytes of one stored element
ElemBytes(type) == CASE type = "S8" -> NameWidth [] type = "i32" -> 4 [] OTHER -> 8

\* ------------------------------------------------ private functions
\* h5a.create raises for a name that exists and for data that do not fit into an
\* object header message (the bytes of the message's header are left out of the
\* count); astype raises later, when the attribute is already created
OnedAttributeWrite(attrs, an, type, data) ==
  IF an \in DOMAIN attrs \/ Len(data.elems) * ElemBytes(type) > MaxMessageBytes
  THEN [ok |-> FALSE, attrs |-> attrs]
  ELSE IF CanCast(data.kind, type)
  THEN [ok |-> TRUE,
        attrs |-> Put(attrs, an, [type |-> type,
                  val |-> [i \in 1..Len(data.elems) |-> Cast(data.kind, type, data.elems[i])]])]
  ELSE [ok |-> FALSE,
        attrs |-> Put(attrs, an, [type |-> type,
                  val |-> [i \in 1..Len(data.elems) |-> Zero(type)]])]

\* a write that never fails: it replaces a dataset of the same name and leaves
\* data it cannot convert unwritten without an error
DatasetWrite_Unchecked(dsets, dn, type, data) ==
  [ok |-> TRUE,
   dsets |-> Put(dsets, dn, [type |-> type, shape |-> data.shape,
                             val |-> IF CanCast(data.kind, type)
                                     THEN Cast(data.kind, type, data.val)
                                     ELSE Zero(type)])]

DatasetWrite(dsets, dn, type, data) ==
  IF dn \in DOMAIN dsets
  THEN [ok |-> FALSE, dsets |-> dsets]
  ELSE IF CanCast(data.kind, type)
  THEN [ok |-> TRUE,
        dsets |-> Put(dsets, dn, [type |-> type, shape |-> data.shape,
                                  val |-> Cast(data.kind, type, data.val)])]
  ELSE [ok |-> FALSE,
        dsets |-> Put(dsets, dn, [type |-> type, shape |-> data.shape, val |-> Zero(type)])]

\* h5repack never runs on the file: the command line lacks the blank before -o,
\* so the first command fails and `&& mv` is skipped
ReclaimSpace(f) == f

\* ------------------------------------------------------ call results
Returned(f, ret, ev) == [file |-> f, status |-> "ok", ret |-> ret, ev |-> ev]
Printed(f, ev) == [file |-> f, status |-> "printed", ret |-> <<>>, ev |-> ev]
Raised(f, ev) == [file |-> f, status |-> "raised", ret |-> <<>>, ev |-> ev]

HasData(f) == f.kind \in {"group", "dataset"}

\* ------------------------------------------------------ is_rfml_hdf5
IsRfmlStatus(f) ==
  /\ HasData(f)
  /\ "datafield_names" \in DOMAIN f.attrs
  /\ "dimensions" \in DOMAIN f.attrs

EvValidate == <<"open_r", "close">>

IsRfmlCall(f) ==
  IF f.kind = "missing"
  THEN Raised(f, <<>>)
  ELSE Returned(f, <<IsRfmlStatus(f)>>, EvValidate)

\* ----------------------------------------------- hdf5_read_attribute
\* parentpath is '/data' throughout.  The handle is closed on the success path only.
ReadAttributeCall(f, an) ==
  IF f.kind = "missing"
  THEN Raised(f, <<>>)
  ELSE IF ~HasData(f) \/ an \notin DOMAIN f.attrs
  THEN Raised(f, <<"open_r">>)
  ELSE Returned(f, <<f.attrs[an]>>, <<"open_r", "close">>)

\* ----------------------------------------------- hdf5_read_variables
ReadVariablesCall(f) ==
  IF f.kind = "missing"
  THEN Raised(f, <<>>)
  ELSE IF ~IsRfmlStatus(f)
  THEN Raised(f, EvValidate)
  ELSE IF f.attrs["datafield_names"].type # "S8"
  THEN Raised(f, EvValidate \o <<"open_r", "close">>)
  ELSE Returned(f, f.attrs["datafield_names"].val, EvValidate \o <<"open_r", "close">>)

\* ------------------------------------------------ hdf5_add_attribute
\* Everything after the open is inside try/except/finally: an attribute that
\* exists, a parent that does not and a failed conversion are printed.
AddAttributeCall(f, an, type, data) ==
  IF f.kind = "missing"
  THEN Raised(f, <<>>)
  ELSE IF ~HasData(f) \/ an \in DOMAIN f.attrs
  THEN Printed(f, <<"open_rw", "close">>)
  ELSE LET w == OnedAttributeWrite(f.attrs, an, type, data)
           f1 == [f EXCEPT !.attrs = w.attrs]
       IN IF w.ok
          THEN Returned(f1, <<>>, <<"open_rw", "write_attr", "close">>)
          ELSE IF an \in DOMAIN w.attrs
          THEN Printed(f1, <<"open_rw", "create_attr", "close">>)
          ELSE Printed(f1, <<"open_rw", "close">>)

\* -------------------------------------------- hdf5_replace_attribute
\* a replace that closes the file and stops there
EvReplaced_NoReclaim == <<"open_rw", "del_attr", "write_attr", "close">>

\* the events of a replace that succeeds: fid.close(), then __hdf5_reclaim_space
EvReplaced == <<"open_rw", "del_attr", "write_attr", "close", "reclaim">>

ReplaceAttributeCall(f, an, data) ==
  IF f.kind = "missing"
  THEN Raised(f, <<>>)
  ELSE IF ~HasData(f)
  THEN Raised(f, <<"open_rw">>)
  ELSE IF an \notin DOMAIN f.attrs
  THEN Printed(f, <<"open_rw", "close">>)
  ELSE LET type == f.attrs[an].type
           w == OnedAttributeWrite(Del(f.attrs, an), an, type, data)
           f1 == [f EXCEPT !.attrs = w.attrs]
       IN IF w.ok
          THEN Returned(ReclaimSpace(f1), <<>>, EvReplaced)
          ELSE IF an \in DOMAIN w.attrs
          THEN Printed(f1, <<"open_rw", "del_attr", "create_attr", "close">>)
          ELSE Printed(f1, <<"open_rw", "del_attr", "close">>)

\* the two replace calls that end hdf5_add_dataset and hdf5_remove_dataset
ReplaceBoth(f, names, dims, ev) ==
  LET r1 == ReplaceAttributeCall(f, "datafield_names", names)
      r2 == ReplaceAttributeCall(r1.file, "dimensions", dims)
  IN [file |-> r2.file,
      status |-> IF r1.status = "ok" /\ r2.status = "ok" THEN "ok" ELSE "printed",
      ret |-> <<>>,
      ev |-> ev \o r1.ev \o r2.ev]

\* dimensions[3] can be read and changed by one
HasCount(a) == a.type # "S8" /\ Len(a.val) >= 4

\* -------------------------------------------------- hdf5_add_dataset
AssertRfml_Off(f) == TRUE

\* assert(is_rfml_hdf5(filename))
AssertRfml(f) == IsRfmlStatus(f)

AddDatasetCall(f, dn, type, data) ==
  IF f.kind = "missing"
  THEN Raised(f, <<>>)
  ELSE IF ~AssertRfml(f)
  THEN Raised(f, EvValidate)
  ELSE IF f.kind # "group"
  THEN Printed(f, EvValidate \o <<"open_rw", "close">>)
  ELSE LET w == DatasetWrite(f.dsets, dn, type, data)
           f1 == [f EXCEPT !.dsets = w.dsets]
           names == f1.attrs["datafield_names"]
           dims == f1.attrs["dimensions"]
           ev1 == EvValidate \o <<"open_rw">>
           ev2 == ev1 \o <<"write_dataset">> \o EvValidate \o <<"open_r", "close">>
       IN IF dn \in DOMAIN f.dsets
          THEN Printed(f1, ev1 \o <<"close">>)
          ELSE IF ~w.ok
          THEN Printed(f1, ev1 \o <<"create_dataset", "close">>)
          ELSE IF ~IsRfmlStatus(f1)
          THEN Printed(f1, ev1 \o <<"write_dataset">> \o EvValidate \o <<"close">>)
          ELSE IF names.type # "S8"
          THEN Printed(f1, ev2 \o <<"close">>)
          ELSE IF ~HasCount(dims)
          THEN Printed(f1, ev2 \o <<"open_r", "close", "close">>)
          ELSE ReplaceBoth(f1,
                 [kind |-> "str", elems |-> Append(names.val, dn)],
                 [kind |-> KindOf(dims.type),
                  elems |-> [dims.val EXCEPT ![4] = @ + One(dims.type)]],
                 ev2 \o <<"open_r", "close", "close">>)

\* ----------------------------------------------- hdf5_remove_dataset
RemoveDatasetCall(f, dn) ==
  IF f.kind = "missing"
  THEN Raised(f, <<>>)
  ELSE IF f.kind # "group" \/ dn \notin DOMAIN f.dsets
  THEN Printed(f, <<"open_rw", "close">>)
  ELSE LET f1 == [f EXCEPT !.dsets = Del(f.dsets, dn)]
           ev1 == <<"open_rw", "del_dataset">> \o EvValidate
       IN IF ~IsRfmlStatus(f1)
          THEN Returned(ReclaimSpace(f1), <<>>, ev1 \o <<"close", "reclaim">> \o EvValidate)
          ELSE LET names == f1.attrs["datafield_names"]
                   dims == f1.attrs["dimensions"]
                   idx == IndexOf(names.val, dn)
               IN IF names.type # "S8" \/ idx = 0 \/ ~HasCount(dims)
                  THEN Printed(f1, ev1 \o <<"close">>)
                  ELSE ReplaceBoth(ReclaimSpace(f1),
                         [kind |-> "str", elems |-> DeleteAt(names.val, idx)],
                         [kind |-> KindOf(dims.type),
                          elems |-> [dims.val EXCEPT ![4] = @ - One(dims.type)]],
                         ev1 \o <<"close", "reclaim">> \o EvValidate)

\* ----------------------------------------------- hdf5_NGA_data_write
\* fields: the mapping in its order, a sequence of [name, data]
RECURSIVE WriteFields(_, _, _)
WriteFields(dsets, fields, i) ==
  IF i > Len(fields)
  THEN [ok |-> TRUE, dsets |-> dsets]
  ELSE LET w == DatasetWrite(dsets, fields[i].name, "f64", fields[i].data)
       IN IF w.ok THEN WriteFields(w.dsets, fields, i + 1) ELSE w

DataWriteCall(fields, t0, dt) ==
  LET nvars == Len(fields)
      a1 == OnedAttributeWrite(EmptyMap, "datafield_names", "S8",
              [kind |-> "str", elems |-> [i \in 1..nvars |-> fields[i].name]])
      a2 == OnedAttributeWrite(a1.attrs, "dimensions", "i32",
              [kind |-> "int", elems |-> Append(fields[1].data.shape, nvars)])
      a3 == OnedAttributeWrite(a2.attrs, "time_variables", "f64",
              [kind |-> "float", elems |-> <<dt, t0>>])
      w == WriteFields(EmptyMap, fields, 1)
      f1 == [kind |-> "group", attrs |-> a3.attrs, dsets |-> w.dsets]
  IN IF w.ok
     THEN Returned(f1, <<>>, <<"open_w", "close">>)
     ELSE Raised(f1, <<"open_w", "close">>)

\* --------------------------------------------- hdf5_NGA_config_write
\* s[a:b] for 0 <= a and 0 <= b: the stop is clamped to the length
Slice(s, a, b) == SubSeq(s, a + 1, IF b < Len(s) THEN b ELSE Len(s))
\* a + b of two one-dimensional arrays: equal lengths add element by element, a
\* length of 1 is broadcast, any other pair of lengths raises ValueError
BroadcastAdd(a, b) ==
  IF Len(a) = Len(b) THEN [ok |-> TRUE, val |-> [i \in 1..Len(a) |-> a[i] + b[i]]]
  ELSE IF Len(a) = 1 THEN [ok |-> TRUE, val |-> [i \in 1..Len(b) |-> a[1] + b[i]]]
  ELSE IF Len(b) = 1 THEN [ok |-> TRUE, val |-> [i \in 1..Len(a) |-> a[i] + b[1]]]
  ELSE [ok |-> FALSE, val |-> <<>>]
\* (s[1:nx] + s[0:nx-1]) / 2.0; the coordinates are whole numbers, so the sum of
\* two of them, counted in halves, is halved exactly
Midpoints(s, nx) ==
  LET sum == BroadcastAdd(Slice(s, 1, nx), Slice(s, 0, nx - 1))
  IN [ok |-> sum.ok, val |-> [i \in 1..Len(sum.val) |-> sum.val[i] \div 2]]

Coords(v) == [kind |-> "float", shape |-> <<Len(v)>>, val |-> v]

\* The name is one element of a 64-byte string type, shorter than 64 bytes.
\* The three midpoint expressions all slice with nx.
ConfigWriteCall(simname, x, y, z, icyl, iper, mask) ==
  LET nx == Len(x) - 1
      ny == Len(y) - 1
      nz == Len(z) - 1
      a1 == Put(EmptyMap, "simulation_name", [type |-> "S64", val |-> <<simname>>])
      a2 == OnedAttributeWrite(a1, "parameters", "i32",
              [kind |-> "int", elems |-> <<icyl, iper[1], iper[2], iper[3], nx, ny, nz>>])
      d1 == DatasetWrite(EmptyMap, "mask", "i32", mask).dsets
      d2 == DatasetWrite(d1, "x", "f64", Coords(x)).dsets
      d3 == DatasetWrite(d2, "y", "f64", Coords(y)).dsets
      d4 == DatasetWrite(d3, "z", "f64", Coords(z)).dsets
      xm == Midpoints(x, nx)
      ym == Midpoints(y, nx)
      zm == Midpoints(z, nx)
      d5 == DatasetWrite(d4, "xm", "f64", Coords(xm.val)).dsets
      d6 == DatasetWrite(d5, "ym", "f64", Coords(ym.val)).dsets
      d7 == DatasetWrite(d6, "zm", "f64", Coords(zm.val)).dsets
      F(d) == [kind |-> "group", attrs |-> a2.attrs, dsets |-> d]
      ev == <<"open_w", "close">>
  IN IF ~xm.ok THEN Raised(F(d4), ev)
     ELSE IF ~ym.ok THEN Raised(F(d5), ev)
     ELSE IF ~zm.ok THEN Raised(F(d6), ev)
     ELSE Returned(F(d7), <<>>, ev)

\* ------------------------------------------------- hdf5_read_dataset
ReadDatasetCall(f, dn) ==
  IF f.kind = "missing"
  THEN Raised(f, <<>>)
  ELSE IF f.kind # "group" \/ dn \notin DOMAIN f.dsets
  THEN Raised(f, <<"open_r">>)
  ELSE Returned(f, <<f.dsets[dn]>>, <<"open_r", "close">>)

\* -------------------------------------------- hdf5_overwrite_dataset
\* a variant that stores the new array as it comes, in its own type
OverwriteDatasetCall_Retype(f, dn, data) ==
  IF f.kind = "missing"
  THEN Raised(f, <<>>)
  ELSE IF f.kind # "group" \/ dn \notin DOMAIN f.dsets
  THEN Raised(f, <<"open_rw", "close">>)
  ELSE IF data.shape # f.dsets[dn].shape \/ data.kind = "str"
  THEN Raised(f, <<"open_rw", "close">>)
  ELSE Returned([f EXCEPT !.dsets[dn] =
                   [type |-> IF data.kind = "int" THEN "i32" ELSE "f64",
                    shape |-> data.shape, val |-> data.val]],
                <<>>, <<"open_rw", "write_dataset", "close">>)

\* The shapes of DataPool do not broadcast to one another: h5py raises
\* TypeError for a shape that is not the dataset's, and the values stay.
OverwriteDatasetCall(f, dn, data) ==
  IF f.kind = "missing"
  THEN Raised(f, <<>>)
  ELSE IF f.kind # "group" \/ dn \notin DOMAIN f.dsets
  THEN Raised(f, <<"open_rw", "close">>)
  ELSE LET d == f.dsets[dn]
       IN IF data.shape # d.shape \/ ~CanCast(data.kind, d.type)
          THEN Raised(f, <<"open_rw", "close">>)
          ELSE Returned([f EXCEPT !.dsets[dn].val = Cast(data.kind, d.type, data.val)],
                        <<>>, <<"open_rw", "write_dataset", "close">>)

\* ============================================================ actions
\* arg: the dataset or attribute the call names
Outcome(op, arg, c) ==
  [op |-> op, arg |-> arg, status |-> c.status, ret |-> c.ret, ev |-> c.ev]

\* the growth of datafield_names and of dimensions[3] is capped at MaxFields
WithinBounds(f) ==
  /\ "datafield_names" \in DOMAIN f.attrs => Len(f.attrs["datafield_names"].val) < MaxFields
  /\ ("dimensions" \in DOMAIN f.attrs /\ HasCount(f.attrs["dimensions"]))
       => f.attrs["dimensions"].val[4] < MaxFields * One(f.attrs["dimensions"].type)

\* ordered mappings name -> array of 1..MaxWriteFields fields, the names distinct
FieldSeqs ==
  UNION { { s \in [1..n -> [name : FieldNames, data : FieldPool]] :
              \A i, j \in 1..n : i # j => s[i].name # s[j].name } : n \in 1..MaxWriteFields }

\* t0 = 0.0, dt = 0.5
TimePool == { [t0 |-> 0, dt |-> 1] }

\* np.zeros(20000, dtype=np.int32): 80000 bytes
LargeArray == [kind |-> "int", elems |-> [i \in 1..20000 |-> 0]]

\* the values callers pass to hdf5_replace_attribute
AttrDataPool ==
  { [kind |-> "str", elems |-> <<LongName, <<"T">>>>],
    [kind |-> "int", elems |-> <<3, 3, 3, 2>>],
    [kind |-> "float", elems |-> <<3, 1>>],
    LargeArray }
AttrNames == {"datafield_names", "dimensions", "time_variables"}
\* the types callers pass to hdf5_add_attribute
AttrTypes == {"S8", "i32"}

IsRfml ==
  LET c == IsRfmlCall(file)
  IN file' = c.file /\ last' = Outcome("is_rfml_hdf5", <<>>, c)

ReadVariables ==
  LET c == ReadVariablesCall(file)
  IN file' = c.file /\ last' = Outcome("hdf5_read_variables", <<>>, c)

ReadAttribute(an) ==
  LET c == ReadAttributeCall(file, an)
  IN file' = c.file /\ last' = Outcome("hdf5_read_attribute", an, c)

AddAttribute(an, type, data) ==
  LET c == AddAttributeCall(file, an, type, data)
  IN file' = c.file /\ last' = Outcome("hdf5_add_attribute", an, c)

ReplaceAttribute(an, data) ==
  LET c == ReplaceAttributeCall(file, an, data)
  IN file' = c.file /\ last' = Outcome("hdf5_replace_attribute", an, c)

AddDataset(dn, type, data) ==
  /\ WithinBounds(file)
  /\ LET c == AddDatasetCall(file, dn, type, data)
     IN file' = c.file /\ last' = Outcome("hdf5_add_dataset", dn, c)

RemoveDataset(dn) ==
  LET c == RemoveDatasetCall(file, dn)
  IN file' = c.file /\ last' = Outcome("hdf5_remove_dataset", dn, c)

ReadDataset(dn) ==
  LET c == ReadDatasetCall(file, dn)
  IN file' = c.file /\ last' = Outcome("hdf5_read_dataset", dn, c)

OverwriteDataset(dn, data) ==
  LET c == OverwriteDatasetCall(file, dn, data)
  IN file' = c.file /\ last' = Outcome("hdf5_overwrite_dataset", dn, c)

\* cell faces at whole numbers, unevenly spaced: 0, 1, 3, 6, ... and -1, 2, 7, ...
CoordsA(n) == [i \in 1..n |-> i * i - i]
CoordsB(n) == [i \in 1..n |-> 2 * i * i - 4]
CoordPool == UNION { {CoordsA(n), CoordsB(n)} : n \in 2..MaxCoords }
SimName == <<"i", "s", "o">>

\* icyl = 0, iper = [1, 1, 1], mask = zeros((x.size - 1, y.size - 1))
ConfigWrite(x, y, z) ==
  LET mask == [kind |-> "int", shape |-> <<Len(x) - 1, Len(y) - 1>>, val |-> 0]
      c == ConfigWriteCall(SimName, x, y, z, 0, <<1, 1, 1>>, mask)
  IN file' = c.file /\ last' = Outcome("hdf5_NGA_config_write", <<>>, c)

DataWrite(fields, t) ==
  LET c == DataWriteCall(fields, t.t0, t.dt)
  IN file' = c.file /\ last' = Outcome("hdf5_NGA_data_write", <<>>, c)

\* ===================================================== specifications
NoCall == [op |-> "none", arg |-> <<>>, status |-> "ok", ret |-> <<>>, ev |-> <<>>]
NoFile == [kind |-> "missing", attrs |-> EmptyMap, dsets |-> EmptyMap]

\* The containers a caller can hand to the library: no file at the path, a file
\* without 'data' (the tests' generic file), and files whose 'data' is a group or
\* a dataset carrying any subset of the attributes of a snapshot.
SampleAttrs ==
  [an \in AttrNames |->
     CASE an = "datafield_names" -> [type |-> "S8", val |-> << <<"C">> >>]
       [] an = "dimensions" -> [type |-> "i32", val |-> <<2, 2, 2, 1>>]
       [] OTHER -> [type |-> "f64", val |-> <<1, 0>>]]
SampleDatasets == [dn \in { <<"C">> } |-> [type |-> "f64", shape |-> <<2, 2, 2>>, val |-> 2]]

ExternalFiles ==
  { NoFile, [kind |-> "nodata", attrs |-> EmptyMap, dsets |-> EmptyMap] }
  \cup { [kind |-> k,
          attrs |-> [an \in S |-> SampleAttrs[an]],
          dsets |-> IF k = "group" THEN SampleDatasets ELSE EmptyMap] :
         k \in {"group", "dataset"}, S \in SUBSET AttrNames }

Init == file \in ExternalFiles /\ last = NoCall

Next ==
  \/ IsRfml
  \/ ReadVariables
  \/ \E an \in AttrNames : ReadAttribute(an)
  \/ \E dn \in FieldNames, type \in DatasetTypes, data \in DataPool : AddDataset(dn, type, data)
  \/ \E dn \in FieldNames : ReadDataset(dn)
  \/ \E dn \in FieldNames, data \in OverwritePool : OverwriteDataset(dn, data)

Spec == Init /\ [][Next]_vars

\* The attribute codec on its own.
NextAttr ==
  \/ IsRfml
  \/ \E an \in AttrNames : ReadAttribute(an)
  \/ \E an \in AttrNames, type \in AttrTypes, data \in AttrDataPool : AddAttribute(an, type, data)
  \/ \E an \in AttrNames, data \in AttrDataPool : ReplaceAttribute(an, data)

SpecAttr == Init /\ [][NextAttr]_vars

\* The snapshot life cycle: hdf5_NGA_data_write creates the file, and only
\* hdf5_add_dataset and hdf5_remove_dataset change it afterwards.
InitMut == file = NoFile /\ last = NoCall

NextMut ==
  \/ \E fields \in FieldSeqs, t \in TimePool : DataWrite(fields, t)
  \/ \E dn \in FieldNames, type \in DatasetTypes, data \in DataPool : AddDataset(dn, type, data)
  \/ \E dn \in FieldNames : RemoveDataset(dn)

SpecMut == InitMut /\ [][NextMut]_vars

\* Files that only grow: hdf5_NGA_data_write and hdf5_add_dataset change the
\* file, the validator and hdf5_read_variables look at it.
NextGrow ==
  \/ IsRfml
  \/ ReadVariables
  \/ \E fields \in FieldSeqs, t \in TimePool : DataWrite(fields, t)
  \/ \E dn \in FieldNames, type \in DatasetTypes, data \in DataPool : AddDataset(dn, type, data)

SpecGrow == InitMut /\ [][NextGrow]_vars

\* The configuration writer: it creates the file, the validator looks at it.
NextConfig ==
  \/ IsRfml
  \/ \E x \in CoordPool, y \in CoordPool, z \in CoordPool : ConfigWrite(x, y, z)

SpecConfig == InitMut /\ [][NextConfig]_vars

\* ============================================================= claims
Range(s) == {s[i] : i \in 1..Len(s)}
NamesOf(f) == f.attrs["datafield_names"].val
DimsOf(f) == f.attrs["dimensions"].val
CountOf(f) == DimsOf(f)[4]
Without(s, x) == SelectSeq(s, LAMBDA e : e # x)
\* a file that keeps the convention in a group
Convention(f) ==
  /\ f.kind = "group"
  /\ {"dimensions", "datafield_names"} \subseteq DOMAIN f.attrs

\* C1: in a snapshot file changed only by hdf5_add_dataset and hdf5_remove_dataset,
\* datafield_names holds exactly the names of the datasets under /data and
\* dimensions[3] is the number of those datasets.
C1_NamesMatchDatasets ==
  file.kind = "group" =>
    /\ Range(NamesOf(file)) = DOMAIN file.dsets
    /\ CountOf(file) = Cardinality(DOMAIN file.dsets)

\* C2: is_rfml_hdf5 returns true exactly when 'data' is a group under the root
\* that carries both 'dimensions' and 'datafield_names'.
C2_ValidatorIffGroup ==
  (last.op = "is_rfml_hdf5" /\ last.status = "ok") =>
    ((last.ret = <<TRUE>>) <=> Convention(file))

\* C3: hdf5_add_dataset of a new name with numeric data on a convention file
\* appends the name to datafield_names, adds 1 to dimensions[3] and stores a
\* dataset that reads back as the data in the requested type.
C3_AddAppends ==
  [][\A dn \in FieldNames, type \in DatasetTypes, data \in FieldPool :
       (AddDataset(dn, type, data) /\ Convention(file) /\ dn \notin DOMAIN file.dsets)
       => /\ NamesOf(file') = Append(NamesOf(file), dn)
          /\ CountOf(file') = CountOf(file) + 1
          /\ ReadDatasetCall(file', dn).ret =
               << [type |-> type, shape |-> data.shape,
                   val |-> Cast(data.kind, type, data.val)] >>]_vars

\* C4: hdf5_remove_dataset of a dataset present under /data of a convention file
\* leaves it absent, datafield_names without that name and dimensions[3] one less.
C4_RemoveUpdates ==
  [][\A dn \in FieldNames :
       (RemoveDataset(dn) /\ Convention(file) /\ dn \in DOMAIN file.dsets)
       => /\ dn \notin DOMAIN file'.dsets
          /\ NamesOf(file') = Without(NamesOf(file), dn)
          /\ CountOf(file') = CountOf(file) - 1]_vars

\* C5: on a convention file, hdf5_add_dataset of a name not yet under /data
\* followed by hdf5_remove_dataset of that name leaves datafield_names and
\* dimensions[3] as they were before the add.
C5_AddThenRemove ==
  Convention(file) =>
    \A dn \in FieldNames \ DOMAIN file.dsets, type \in DatasetTypes, data \in FieldPool :
      LET added == AddDatasetCall(file, dn, type, data).file
          removed == RemoveDatasetCall(added, dn).file
      IN /\ NamesOf(removed) = NamesOf(file)
         /\ CountOf(removed) = CountOf(file)

\* the stored attribute a holds the data, re-encoded into its type
Holds(a, data) ==
  /\ CanCast(data.kind, a.type)
  /\ Len(a.val) = Len(data.elems)
  /\ \A i \in 1..Len(a.val) : a.val[i] = Cast(data.kind, a.type, data.elems[i])

\* C6: hdf5_replace_attribute of an existing attribute keeps the attribute's
\* stored element type and leaves the data of the call as its value.
C6_ReplaceKeepsTypeStoresData ==
  [][\A an \in AttrNames, data \in AttrDataPool :
       (ReplaceAttribute(an, data) /\ HasData(file) /\ an \in DOMAIN file.attrs)
       => /\ an \in DOMAIN file'.attrs
          /\ file'.attrs[an].type = file.attrs[an].type
          /\ Holds(file'.attrs[an], data)]_vars

\* C7: hdf5_overwrite_dataset of an existing dataset changes nothing but that
\* dataset's values: every dataset keeps its element type and shape, whatever the
\* type of the new data, and after a call that returns the values are the new
\* data converted to the dataset's type; a call that raises changes nothing.
C7_OverwriteKeepsTypeAndShape ==
  [][\A dn \in FieldNames, data \in OverwritePool :
       (OverwriteDataset(dn, data) /\ file.kind = "group" /\ dn \in DOMAIN file.dsets)
       => /\ file'.kind = file.kind
          /\ file'.attrs = file.attrs
          /\ DOMAIN file'.dsets = DOMAIN file.dsets
          /\ \A d \in DOMAIN file.dsets :
               /\ file'.dsets[d].type = file.dsets[d].type
               /\ file'.dsets[d].shape = file.dsets[d].shape
               /\ d # dn => file'.dsets[d].val = file.dsets[d].val
          /\ last'.status = "ok"
               => file'.dsets[dn].val = Cast(data.kind, file.dsets[dn].type, data.val)
          /\ last'.status # "ok" => file' = file]_vars

\* a 32-bit integer dataset of shape (3,3,3) was overwritten with the floats 2.5
C7_Witness ==
  /\ last.op = "hdf5_overwrite_dataset"
  /\ last.status = "ok"
  /\ file.kind = "group"
  /\ last.arg \in DOMAIN file.dsets
  /\ file.dsets[last.arg] = [type |-> "i32", shape |-> <<3, 3, 3>>, val |-> 2]

\* C8: hdf5_NGA_data_write leaves a validator-true file whose datafield_names are
\* the field names in mapping order, whose dimensions are the first field's shape
\* followed by the number of fields, whose time_variables are [dt, t0], and whose
\* datasets are exactly the fields with their values.
C8_DataWriteLayout ==
  [][\A fields \in FieldSeqs, t \in TimePool :
       DataWrite(fields, t)
       => /\ IsRfmlCall(file').ret = <<TRUE>>
          /\ NamesOf(file') = [i \in 1..Len(fields) |-> fields[i].name]
          /\ DimsOf(file') = Append(fields[1].data.shape, Len(fields))
          /\ file'.attrs["time_variables"].val = <<t.dt, t.t0>>
          /\ DOMAIN file'.dsets = {fields[i].name : i \in 1..Len(fields)}
          /\ \A i \in 1..Len(fields) :
               /\ file'.dsets[fields[i].name].shape = fields[i].data.shape
               /\ file'.dsets[fields[i].name].val
                    = Cast(fields[i].data.kind, "f64", fields[i].data.val)]_vars

\* C9: in every file reached through hdf5_NGA_data_write and hdf5_add_dataset,
\* dimensions[3] is the length of datafield_names and the number of datasets
\* under /data whose shape is the first three entries of dimensions.
C9_CountMatchesShapedDatasets ==
  file.kind = "group" =>
    /\ CountOf(file) = Len(NamesOf(file))
    /\ CountOf(file) =
         Cardinality({dn \in DOMAIN file.dsets :
                        file.dsets[dn].shape = SubSeq(DimsOf(file), 1, 3)})

\* C10: hdf5_add_dataset on a file for which is_rfml_hdf5 returns false raises to
\* the caller and leaves the file as it was.
C10_AddRejectsNonConvention ==
  [][\A dn \in FieldNames, type \in DatasetTypes, data \in DataPool :
       (AddDataset(dn, type, data) /\ IsRfmlCall(file).ret = <<FALSE>>)
       => /\ last'.status = "raised"
          /\ file' = file]_vars

\* hdf5_add_dataset was refused on a file whose /data group lacks 'dimensions'
C10_Witness ==
  /\ last.op = "hdf5_add_dataset"
  /\ last.status = "raised"
  /\ file.kind = "group"
  /\ "dimensions" \notin DOMAIN file.attrs
  /\ file.dsets = SampleDatasets

\* C11: hdf5_add_attribute for a name that exists on the parent does not return
\* normally (the error reaches the caller) and leaves the file as it was.
C11_AddExistingAttributeRaises ==
  [][\A an \in AttrNames, type \in AttrTypes, data \in AttrDataPool :
       (AddAttribute(an, type, data) /\ HasData(file) /\ an \in DOMAIN file.attrs)
       => /\ last'.status = "raised"
          /\ file' = file]_vars

\* C12: hdf5_replace_attribute for a name that is not on an existing parent does
\* not return normally, leaves the file as it was and runs no reclamation.
C12_ReplaceMissingAttributeRaises ==
  [][\A an \in AttrNames, data \in AttrDataPool :
       (ReplaceAttribute(an, data) /\ HasData(file) /\ an \notin DOMAIN file.attrs)
       => /\ last'.status = "raised"
          /\ file' = file
          /\ "reclaim" \notin Range(last'.ev)]_vars

\* C13: hdf5_remove_dataset for a name that is not under the parent does not
\* return normally and leaves datasets, datafield_names and dimensions unchanged.
C13_RemoveMissingDatasetRaises ==
  [][\A dn \in FieldNames :
       (RemoveDataset(dn) /\ file.kind = "group" /\ dn \notin DOMAIN file.dsets)
       => /\ last'.status = "raised"
          /\ file' = file]_vars

\* container handles: the number open after the first n events of a call
IsOpen(e) == e \in {"open_r", "open_rw", "open_w"}
RECURSIVE OpenAfter(_, _)
OpenAfter(ev, n) ==
  IF n = 0 THEN 0
  ELSE OpenAfter(ev, n - 1)
         + (IF IsOpen(ev[n]) THEN 1 ELSE IF ev[n] = "close" THEN -1 ELSE 0)
OpenAtExit(ev) == OpenAfter(ev, Len(ev))

\* C14: is_rfml_hdf5 never raises: it returns false for a file that cannot be
\* opened, and no handle is open after it returns.
C14_ValidatorNeverRaises ==
  last.op = "is_rfml_hdf5" =>
    /\ last.status = "ok"
    /\ file.kind = "missing" => last.ret = <<FALSE>>
    /\ OpenAtExit(last.ev) = 0

\* C15: every public operation has released every handle it opened when it
\* exits, whether it returns, prints an error or raises.
C15_HandlesReleasedAtExit ==
  OpenAtExit(last.ev) = 0

\* C18: at no point during an operation is more than one container handle open.
C18_OneHandleAtATime ==
  \A n \in 0..Len(last.ev) : OpenAfter(last.ev, n) <= 1

\* C19: hdf5_remove_dataset on a convention file, for a dataset that is under
\* /data but not listed in datafield_names, does not return normally: an error
\* reaches the caller.
C19_RemoveUntrackedRaises ==
  [][\A dn \in FieldNames :
       (RemoveDataset(dn) /\ Convention(file) /\ dn \in DOMAIN file.dsets
          /\ dn \notin Range(NamesOf(file)))
       => last'.status = "raised"]_vars

\* the averages of the adjacent pairs of s
PairwiseMidpoints(s) == [i \in 1..(Len(s) - 1) |-> (s[i] + s[i + 1]) \div 2]

\* C16: for coordinate arrays of at least two entries each, hdf5_NGA_config_write
\* stores xm, ym and zm as the len-1 averages of the adjacent pairs of x, y and z,
\* each whatever the lengths of the other two arrays.
C16_MidpointsOfEachAxis ==
  [][\A x \in CoordPool, y \in CoordPool, z \in CoordPool :
       ConfigWrite(x, y, z)
       => /\ last'.status = "ok"
          /\ file'.dsets["xm"].val = PairwiseMidpoints(x)
          /\ file'.dsets["ym"].val = PairwiseMidpoints(y)
          /\ file'.dsets["zm"].val = PairwiseMidpoints(z)]_vars

\* the deletion, the reclamations and the attribute writes of a call, in order
Milestones(ev) == SelectSeq(ev, LAMBDA e : e \in {"del_dataset", "reclaim", "write_attr"})
FirstReclaim(ev) == CHOOSE i \in 1..Len(ev) :
                      ev[i] = "reclaim" /\ \A j \in 1..(i - 1) : ev[j] # "reclaim"
\* the first reclamation comes after the deletion, with the container closed,
\* and before any attribute is replaced
FirstReclaimInPlace(ev) ==
  /\ "reclaim" \in Range(ev)
  /\ SubSeq(Milestones(ev), 1, 2) = <<"del_dataset", "reclaim">>
  /\ OpenAfter(ev, FirstReclaim(ev) - 1) = 0
  /\ \A j \in 1..(FirstReclaim(ev) - 1) : ev[j] \notin {"del_attr", "create_attr"}

\* C17 as stated: one hdf5_remove_dataset call on a convention file, for a
\* dataset under /data, runs reclamation exactly twice, the first time after the
\* deletion and the close and before any attribute is replaced.
C17_ReclaimTwice ==
  [][\A dn \in FieldNames :
       (RemoveDataset(dn) /\ Convention(file) /\ dn \in DOMAIN file.dsets)
       => /\ Len(SelectSeq(last'.ev, LAMBDA e : e = "reclaim")) = 2
          /\ FirstReclaimInPlace(last'.ev)]_vars

\* C17: one hdf5_remove_dataset call on a convention file, for a dataset under
\* /data whose name datafield_names lists, runs reclamation exactly three times:
\* after the deletion and the close and before any attribute is replaced, then
\* after each of the two attribute replacements.  For a dataset datafield_names
\* does not list, the call deletes the dataset and runs no reclamation.
C17_ReclaimThreeTimes ==
  [][\A dn \in FieldNames :
       (RemoveDataset(dn) /\ Convention(file) /\ dn \in DOMAIN file.dsets)
       => IF dn \in Range(NamesOf(file))
          THEN /\ Milestones(last'.ev) = <<"del_dataset", "reclaim", "write_attr", "reclaim",
                                           "write_attr", "reclaim">>
               /\ FirstReclaimInPlace(last'.ev)
          ELSE Milestones(last'.ev) = <<"del_dataset">>]_vars

\* a listed dataset was removed from a convention file: three reclamations
C17_Witness ==
  /\ last.op = "hdf5_remove_dataset"
  /\ last.status = "ok"
  /\ Convention(file)
  /\ last.arg \notin DOMAIN file.dsets
  /\ Len(SelectSeq(last.ev, LAMBDA e : e = "reclaim")) = 3

\* C20: when the dataset write inside hdf5_add_dataset fails (the name exists
\* under the parent, the parent is not a group, the data cannot be converted),
\* no bookkeeping is done: every attribute keeps its value, no reclamation runs
\* and the datasets that were there keep their values.
C20_FailedWriteNoBookkeeping ==
  [][\A dn \in FieldNames, type \in DatasetTypes, data \in DataPool :
       (/\ AddDataset(dn, type, data)
        /\ IsRfmlStatus(file)
        /\ \/ file.kind # "group"
           \/ dn \in DOMAIN file.dsets
           \/ ~CanCast(data.kind, type))
       => /\ file'.attrs = file.attrs
          /\ Range(last'.ev) \cap {"reclaim", "del_attr", "write_attr", "create_attr"} = {}
          /\ \A d \in DOMAIN file.dsets :
               d \in DOMAIN file'.dsets /\ file'.dsets[d] = file.dsets[d]]_vars

\* hdf5_add_dataset of the name 'C' was refused on the sample file, which holds 'C'
C20_Witness ==
  /\ last.op = "hdf5_add_dataset"
  /\ last.arg = <<"C">>
  /\ last.status = "printed"
  /\ Convention(file)
  /\ file.attrs = SampleAttrs
  /\ file.dsets = SampleDatasets

\* C21: hdf5_replace_attribute never loses the attribute: an attribute that is
\* there before the call is there after it, with the element type it had, whether
\* the replace succeeded or failed, and a validator-true file stays validator-true.
C21_ReplaceNeverLosesAttribute ==
  [][\A an \in AttrNames, data \in AttrDataPool :
       (ReplaceAttribute(an, data) /\ HasData(file) /\ an \in DOMAIN file.attrs)
       => /\ an \in DOMAIN file'.attrs
          /\ file'.attrs[an].type = file.attrs[an].type
          /\ IsRfmlStatus(file) => IsRfmlStatus(file')]_vars

====
